---- MODULE Spec2Model ----
(***************************************************************************)
(* Project-Talos: texture-modding utility scripts.                         *)
(*                                                                         *)
(*   image_modification/get_HSL_delta.py          fit and recolor          *)
(*   image_modification/apply_transforms.py       per-texture regions      *)
(*   image_modification/apply_regional_transform.py                        *)
(*   file_ops/file_renamer.py                     rename with offset       *)
(*                                                                         *)
(* The colour transform is computed in Python floats (IEEE-754 binary64)   *)
(* and, inside Pillow's ImageEnhance/Image.blend, in C floats (binary32).  *)
(* Both are modelled bit for bit: a float is a sign, a normalised mantissa *)
(* and an exponent, every operation computes the exact result and rounds   *)
(* it to nearest, ties to even.                                            *)
(***************************************************************************)
EXTENDS Integers, Sequences, FiniteSets, TLC

----------------------------------------------------------------------------
(* Naturals of any size: little-endian sequences of 14-bit limbs, no zero  *)
(* limb at the top; <<>> is 0.  (TLC's integers are 32 bits wide.)         *)

LimbBits == 7 + 7
Base == 2^LimbBits

Limbs == Seq(Nat)

Limb(a, i) == IF i <= Len(a) THEN a[i] ELSE 0

NStrip[a \in Limbs] ==
  IF Len(a) = 0 THEN <<>>
  ELSE IF a[Len(a)] = 0 THEN NStrip[SubSeq(a, 1, Len(a) - 1)]
  ELSE a

NFromInt[n \in Nat] == IF n = 0 THEN <<>> ELSE <<n % Base>> \o NFromInt[n \div Base]

NToInt[a \in Limbs] == IF Len(a) = 0 THEN 0 ELSE a[1] + Base * NToInt[Tail(a)]

\* the limbs of the number whose columns, from the i-th, are s[i], s[i+1],
\* ..., with c carried in
NCarry[s \in Limbs, i \in Nat, c \in Nat] ==
  IF i > Len(s)
    THEN (IF c = 0 THEN <<>> ELSE <<c % Base>> \o NCarry[s, i, c \div Base])
    ELSE <<(s[i] + c) % Base>> \o NCarry[s, i + 1, (s[i] + c) \div Base]

NMaxLen(a, b) == IF Len(a) >= Len(b) THEN Len(a) ELSE Len(b)

NAdd[a \in Limbs, b \in Limbs] ==
  IF Len(a) = 0 THEN b
  ELSE IF Len(b) = 0 THEN a
  ELSE NCarry[[i \in 1..NMaxLen(a, b) |-> Limb(a, i) + Limb(b, i)], 1, 0]

NBorrow[a \in Limbs, b \in Limbs, i \in Nat, br \in Nat] ==
  IF i > Len(a) THEN <<>>
  ELSE IF a[i] - Limb(b, i) - br < 0
    THEN <<a[i] - Limb(b, i) - br + Base>> \o NBorrow[a, b, i + 1, 1]
    ELSE <<a[i] - Limb(b, i) - br>> \o NBorrow[a, b, i + 1, 0]

\* a - b, for a >= b
NSub[a \in Limbs, b \in Limbs] == NStrip[NBorrow[a, b, 1, 0]]

NCmpAt[a \in Limbs, b \in Limbs, i \in Nat] ==
  IF i = 0 THEN 0
  ELSE IF a[i] > b[i] THEN 1
  ELSE IF a[i] < b[i] THEN -1
  ELSE NCmpAt[a, b, i - 1]

\* -1, 0, 1 as a < b, a = b, a > b
NCmp[a \in Limbs, b \in Limbs] ==
  IF Len(a) > Len(b) THEN 1
  ELSE IF Len(a) < Len(b) THEN -1
  ELSE NCmpAt[a, b, Len(a)]

NColumn[a \in Limbs, b \in Limbs, k \in Nat, i \in Nat] ==
  IF i > Len(a) \/ i > k THEN 0
  ELSE (IF k + 1 - i <= Len(b) THEN a[i] * b[k + 1 - i] ELSE 0)
       + NColumn[a, b, k, i + 1]

\* a * b, for operands of at most 4 limbs (a column sum stays below 2^31)
NMul[a \in Limbs, b \in Limbs] ==
  IF Len(a) = 0 \/ Len(b) = 0 THEN <<>>
  ELSE NStrip[NCarry[[k \in 1..(Len(a) + Len(b) - 1) |-> NColumn[a, b, k, 1]], 1, 0]]

NZeros[q \in Nat] == IF q = 0 THEN <<>> ELSE <<0>> \o NZeros[q - 1]

\* a * 2^k
NShl[a \in Limbs, k \in Nat] ==
  IF Len(a) = 0 THEN <<>>
  ELSE NZeros[k \div LimbBits]
       \o NCarry[[i \in 1..Len(a) |-> a[i] * 2^(k % LimbBits)], 1, 0]

\* floor(a / 2^k)
NShr[a \in Limbs, k \in Nat] ==
  LET q == k \div LimbBits
      r == k % LimbBits
  IN IF Len(a) <= q THEN <<>>
     ELSE NStrip[[i \in 1..(Len(a) - q) |->
            (a[i + q] \div 2^r) + (Limb(a, i + q + 1) % 2^r) * 2^(LimbBits - r)]]

\* a mod 2^k
NLow[a \in Limbs, k \in Nat] ==
  LET q == k \div LimbBits
      r == k % LimbBits
  IN NStrip[[i \in 1..(q + 1) |-> IF i <= q THEN Limb(a, i) ELSE Limb(a, i) % 2^r]]

BitLen[n \in Nat] == IF n = 0 THEN 0 ELSE 1 + BitLen[n \div 2]

NBits(a) == IF Len(a) = 0 THEN 0 ELSE LimbBits * (Len(a) - 1) + BitLen[a[Len(a)]]

NBit(a, i) == (Limb(a, i \div LimbBits + 1) \div 2^(i % LimbBits)) % 2

\* the quotient limb q is put below the limbs Q; the remainder is RB - q * B
NDivRem[Q \in Limbs, RB \in Limbs, B \in Limbs, q \in Nat] ==
  <<<<q>> \o Q, NSub[RB, NMul[B, NFromInt[q]]]>>

\* the estimate qh of floor(RB / B), with t0 = qh * B, is at most 2 too large
\* (Knuth, TAOCP 4.3.1, Theorem B)
NDivFix[Q \in Limbs, RB \in Limbs, B \in Limbs, qh \in Nat, t0 \in Limbs] ==
  NDivRem[Q, RB, B, IF NCmp[t0, RB] <= 0 THEN qh
                    ELSE IF NCmp[NSub[t0, B], RB] <= 0 THEN qh - 1
                    ELSE qh - 2]

\* the limb estimated from the top limbs of RB = R * Base and of B
NDivEst(RB, B) ==
  IF (Limb(RB, Len(B) + 1) * Base + Limb(RB, Len(B))) \div B[Len(B)] >= Base
    THEN Base - 1
    ELSE (Limb(RB, Len(B) + 1) * Base + Limb(RB, Len(B))) \div B[Len(B)]

\* one step of long division, for R < B and the top limb of B at least
\* Base / 2: <<Q * Base + floor(R * Base / B), R * Base mod B>>
NDivLimb[Q \in Limbs, R \in Limbs, B \in Limbs] ==
  LET RB == IF Len(R) = 0 THEN <<>> ELSE <<0>> \o R
  IN NDivFix[Q, RB, B, NDivEst(RB, B), NMul[B, NFromInt[NDivEst(RB, B)]]]

\* n steps of long division from QR = <<Q, R>>
NDivLimbs[QR \in Seq(Limbs), B \in Limbs, n \in Nat] ==
  IF n = 0 THEN QR ELSE NDivLimbs[NDivLimb[QR[1], QR[2], B], B, n - 1]

----------------------------------------------------------------------------
(* IEEE-754 arithmetic, round to nearest, ties to even.  A float is        *)
(* [s, m, e] with value s * m * 2^e; m has exactly p bits (p = 53 for a    *)
(* Python float, 24 for a C float) or is 0.  NaN, infinities, subnormals   *)
(* and the sign of zero do not occur in the computations modelled.         *)

DoubleBits == 50 + 3
SingleBits == 20 + 4

Floats == [s : {-1, 1}, m : Limbs, e : Int]

FZero == [s |-> 1, m |-> <<>>, e |-> 0]

\* the rounded mantissa q1 may have carried into bit p + 1
RoundCarry[s \in {-1, 1}, q1 \in Limbs, e \in Int, p \in Nat] ==
  IF NBits(q1) > p THEN [s |-> s, m |-> NShr[q1, 1], e |-> e + 1]
  ELSE [s |-> s, m |-> q1, e |-> e]

\* q = floor(m / 2^k): up when the dropped bits are above half, or are half
\* and q is odd
RoundEven[s \in {-1, 1}, m \in Limbs, e \in Int, p \in Nat, k \in Nat, q \in Limbs] ==
  RoundCarry[s, IF /\ NBit(m, k - 1) = 1
                   /\ (Len(NLow[m, k - 1]) # 0 \/ NBit(q, 0) = 1)
                  THEN NAdd[q, <<1>>] ELSE q, e + k, p]

\* m has p + k bits
RoundBits[s \in {-1, 1}, m \in Limbs, e \in Int, p \in Nat, k \in Int] ==
  IF k <= 0 THEN [s |-> s, m |-> NShl[m, -k], e |-> e + k]
  ELSE RoundEven[s, m, e, p, k, NShr[m, k]]

\* s * m * 2^e rounded to p bits
Round[s \in {-1, 1}, m \in Limbs, e \in Int, p \in Nat] ==
  IF Len(m) = 0 THEN FZero ELSE RoundBits[s, m, e, p, NBits(m) - p]

FromInt[n \in Int, p \in Nat] ==
  Round[IF n < 0 THEN -1 ELSE 1, NFromInt[IF n < 0 THEN -n ELSE n], 0, p]

FNeg(x) == IF Len(x.m) = 0 THEN x ELSE [x EXCEPT !.s = -x.s]

\* -1, 0, 1 as |x| < |y|, |x| = |y|, |x| > |y|, for floats of the same width
FCmpAbs(x, y) ==
  IF Len(x.m) = 0 THEN (IF Len(y.m) = 0 THEN 0 ELSE -1)
  ELSE IF Len(y.m) = 0 THEN 1
  ELSE IF x.e > y.e THEN 1
  ELSE IF x.e < y.e THEN -1
  ELSE NCmp[x.m, y.m]

FCmp[x \in Floats, y \in Floats] ==
  IF Len(x.m) = 0 THEN (IF Len(y.m) = 0 THEN 0 ELSE -y.s)
  ELSE IF Len(y.m) = 0 THEN x.s
  ELSE IF x.s # y.s THEN x.s
  ELSE x.s * FCmpAbs(x, y)

FLt(x, y) == FCmp[x, y] < 0
FLe(x, y) == FCmp[x, y] <= 0

\* hs * a * 2^e + ls * b * 2^e, rounded
FAddAligned[hs \in {-1, 1}, a \in Limbs, ls \in {-1, 1}, b \in Limbs, e \in Int, p \in Nat] ==
  IF hs = ls THEN Round[hs, NAdd[a, b], e, p]
  ELSE IF NCmp[a, b] = 0 THEN FZero
  ELSE IF NCmp[a, b] > 0 THEN Round[hs, NSub[a, b], e, p]
  ELSE Round[ls, NSub[b, a], e, p]

FAdd[x \in Floats, y \in Floats, p \in Nat] ==
  IF Len(x.m) = 0 THEN y
  ELSE IF Len(y.m) = 0 THEN x
  ELSE LET hi == IF x.e >= y.e THEN x ELSE y
           lo == IF x.e >= y.e THEN y ELSE x
           d  == hi.e - lo.e
           \* lo below a quarter of hi's last place only decides the rounding
           far == d >= p + 2
       IN FAddAligned[hi.s, IF far THEN NShl[hi.m, 3] ELSE NShl[hi.m, d],
                      lo.s, IF far THEN <<1>> ELSE lo.m,
                      IF far THEN hi.e - 3 ELSE lo.e, p]

FSub[x \in Floats, y \in Floats, p \in Nat] == FAdd[x, FNeg(y), p]

FMul[x \in Floats, y \in Floats, p \in Nat] ==
  IF Len(x.m) = 0 \/ Len(y.m) = 0 THEN FZero
  ELSE Round[x.s * y.s, NMul[x.m, y.m], x.e + y.e, p]

\* the quotient limbs QR[1] (the leading bit on top) and the remainder QR[2],
\* which only matters as a sticky bit below the last place
FDivRound[s \in {-1, 1}, QR \in Seq(Limbs), e \in Int, p \in Nat] ==
  Round[s, NAdd[NShl[NStrip[QR[1]], 1],
                IF Len(QR[2]) = 0 THEN <<>> ELSE <<1>>], e, p]

\* x / y for y # 0: the leading bit and 4 quotient limbs, then rounded
FDiv[x \in Floats, y \in Floats, p \in Nat] ==
  IF Len(x.m) = 0 THEN FZero
  ELSE LET k == (LimbBits - (p % LimbBits)) % LimbBits
       IN FDivRound[x.s * y.s,
                    NDivLimbs[IF NCmp[x.m, y.m] >= 0
                                THEN <<<<1>>, NShl[NSub[x.m, y.m], k]>>
                                ELSE <<<<0>>, NShl[x.m, k]>>,
                              NShl[y.m, k], 4],
                    x.e - y.e - 4 * LimbBits - 1, p]

\* a remainder of fmod(x, 1.0) below zero is moved into [0, 1)
FWrap1[frac \in Floats, p \in Nat] ==
  IF frac.s < 0 THEN FAdd[frac, FromInt[1, p], p] ELSE frac

\* Python's x % 1.0: C fmod (exact), then + 1.0 when the remainder is negative
FMod1[x \in Floats, p \in Nat] ==
  FWrap1[IF x.e >= 0 THEN FZero
         ELSE IF -x.e >= p THEN x
         ELSE Round[x.s, NLow[x.m, -x.e], x.e, p], p]

\* Python's int(x), C's (int) x: truncation toward zero
FTrunc[x \in Floats] ==
  IF Len(x.m) = 0 THEN 0
  ELSE x.s * NToInt[IF x.e >= 0 THEN NShl[x.m, x.e] ELSE NShr[x.m, -x.e]]

\* a binary64 narrowed to binary32 (a Python float passed as a C float)
ToSingle(x) == Round[x.s, x.m, x.e, SingleBits]

\* the decimal literal n / 10^k as Python reads it (correctly rounded)
Lit(n, k) == FDiv[FromInt[n, DoubleBits], FromInt[10^k, DoubleBits], DoubleBits]

D(n) == FromInt[n, DoubleBits]
Add(x, y) == FAdd[x, y, DoubleBits]
Sub(x, y) == FSub[x, y, DoubleBits]
Mul(x, y) == FMul[x, y, DoubleBits]
Div(x, y) == FDiv[x, y, DoubleBits]
Mod1(x) == FMod1[x, DoubleBits]

----------------------------------------------------------------------------
(* colorsys (Python standard library), as called by the transformations.   *)

F0 == D(0)
F1 == D(1)
F2 == D(2)
F4 == D(4)
F6 == D(6)
F100 == D(100)
F255 == D(255)
F360 == D(360)
HALF == Div(F1, F2)
ONE_THIRD == Div(F1, D(3))
ONE_SIXTH == Div(F1, F6)
TWO_THIRD == Div(F2, D(3))

\* Python's max(x, y) and min(x, y)
FMax(x, y) == IF FLt(x, y) THEN y ELSE x
FMin(x, y) == IF FLt(y, x) THEN y ELSE x

\* h = ...; h = (h/6.0) % 1.0; return h, l, s
rgb_to_hls_h(r, g, maxc, l, s, rc, gc, bc) ==
  <<Mod1(Div(IF r = maxc THEN Sub(bc, gc)
             ELSE IF g = maxc THEN Sub(Add(F2, rc), bc)
             ELSE Sub(Add(F4, gc), rc), F6)), l, s>>

\* if minc == maxc: return 0.0, l, 0.0; s, rc, gc, bc
rgb_to_hls_s(r, g, b, maxc, minc, sumc, rangec, l) ==
  IF minc = maxc THEN <<F0, l, F0>>
  ELSE rgb_to_hls_h(r, g, maxc, l,
                    IF FLe(l, HALF) THEN Div(rangec, sumc)
                    ELSE Div(rangec, Sub(Sub(F2, maxc), minc)),
                    Div(Sub(maxc, r), rangec),
                    Div(Sub(maxc, g), rangec),
                    Div(Sub(maxc, b), rangec))

\* sumc, rangec, l
rgb_to_hls_l(r, g, b, maxc, minc) ==
  rgb_to_hls_s(r, g, b, maxc, minc,
               Add(maxc, minc), Sub(maxc, minc), Div(Add(maxc, minc), F2))

\* colorsys.rgb_to_hls: <<h, l, s>>
rgb_to_hls(r, g, b) ==
  rgb_to_hls_l(r, g, b, FMax(FMax(r, g), b), FMin(FMin(r, g), b))

\* colorsys._v after hue = hue % 1.0
_v_hue(m1, m2, hue) ==
  IF FLt(hue, ONE_SIXTH) THEN Add(m1, Mul(Mul(Sub(m2, m1), hue), F6))
  ELSE IF FLt(hue, HALF) THEN m2
  ELSE IF FLt(hue, TWO_THIRD)
    THEN Add(m1, Mul(Mul(Sub(m2, m1), Sub(TWO_THIRD, hue)), F6))
  ELSE m1

\* colorsys._v
_v(m1, m2, hue) == _v_hue(m1, m2, Mod1(hue))

\* return (_v(m1, m2, h+ONE_THIRD), _v(m1, m2, h), _v(m1, m2, h-ONE_THIRD))
hls_to_rgb_v(h, m1, m2) ==
  <<_v(m1, m2, Add(h, ONE_THIRD)), _v(m1, m2, h), _v(m1, m2, Sub(h, ONE_THIRD))>>

\* m1 = 2.0*l - m2
hls_to_rgb_m1(h, l, m2) == hls_to_rgb_v(h, Sub(Mul(F2, l), m2), m2)

\* colorsys.hls_to_rgb: <<r, g, b>>
hls_to_rgb(h, l, s) ==
  IF s = F0 THEN <<l, l, l>>
  ELSE hls_to_rgb_m1(h, l, IF FLe(l, HALF) THEN Mul(l, Add(F1, s))
                           ELSE Sub(Add(l, s), Mul(l, s)))

----------------------------------------------------------------------------
(* Pillow: Image.convert("L"), Image.blend, ImageEnhance.Color/Brightness  *)
(* on one RGB pixel.                                                       *)

\* ITU-R 601-2 luma as Pillow's C conversion computes it (16-bit fixed point)
Luma(rgb) == (rgb[1] * 19595 + rgb[2] * 38470 + rgb[3] * 7471 + 32768) \div 65536

\* the blended value t as a byte: truncated when alpha interpolates, clipped
\* to 0..255 when it extrapolates
BlendClip(alpha, t) ==
  IF FLe(FZero, alpha) /\ FLe(alpha, FromInt[1, SingleBits]) THEN FTrunc[t]
  ELSE IF FLe(t, FZero) THEN 0
  ELSE IF FLe(FromInt[255, SingleBits], t) THEN 255
  ELSE FTrunc[t]

\* one band of Image.blend(im1, im2, alpha): in1 + alpha * (in2 - in1) in C
\* floats
BlendBand(in1, in2, alpha) ==
  BlendClip(alpha, FAdd[FromInt[in1, SingleBits],
                        FMul[alpha, FromInt[in2 - in1, SingleBits], SingleBits],
                        SingleBits])

\* Image.blend with alpha already a C float
BlendAlpha(im1, im2, alpha) ==
  IF alpha = FZero THEN im1
  ELSE IF alpha = FromInt[1, SingleBits] THEN im2
  ELSE <<BlendBand(im1[1], im2[1], alpha),
         BlendBand(im1[2], im2[2], alpha),
         BlendBand(im1[3], im2[3], alpha)>>

Blend(im1, im2, factor) == BlendAlpha(im1, im2, ToSingle(factor))

\* the image and its grayscale version exchanged
EnhanceColorSwapped(img, factor) == Blend(img, <<Luma(img), Luma(img), Luma(img)>>, factor)

\* ImageEnhance.Color(img).enhance(factor)
EnhanceColor(img, factor) == Blend(<<Luma(img), Luma(img), Luma(img)>>, img, factor)

\* the image and the black image exchanged
EnhanceBrightnessSwapped(img, factor) == Blend(img, <<0, 0, 0>>, factor)

\* ImageEnhance.Brightness(img).enhance(factor)
EnhanceBrightness(img, factor) == Blend(<<0, 0, 0>>, img, factor)

----------------------------------------------------------------------------
(* The colour transformations.  Parameters are Python floats.              *)

\* int(c + d), the clamp left out
MaskChannelUnclamped(c, d) == FTrunc[Add(D(c), d)]

\* int(max(0, min(255, c + d)))
MaskChannel(c, d) == FTrunc[FMax(F0, FMin(F255, Add(D(c), d)))]

AdditiveMask(rgb, dr, dg, db) ==
  <<MaskChannel(rgb[1], dr), MaskChannel(rgb[2], dg), MaskChannel(rgb[3], db)>>

\* int(r * 255), int(g * 255), int(b * 255)
HueShiftBytes(out) ==
  <<FTrunc[Mul(out[1], F255)], FTrunc[Mul(out[2], F255)], FTrunc[Mul(out[3], F255)]>>

\* new_h = (h + dh / 360.0) % 1.0; hls_to_rgb(new_h, l, s)
HueShiftHls(hls, dh) ==
  HueShiftBytes(hls_to_rgb(Mod1(Add(hls[1], Div(dh, F360))), hls[2], hls[3]))

\* rgb -> hls, hue + dh/360 mod 1, hls -> rgb, int(x * 255)
HueShift(rgb, dh) ==
  HueShiftHls(rgb_to_hls(Div(D(rgb[1]), F255), Div(D(rgb[2]), F255),
                         Div(D(rgb[3]), F255)), dh)

\* 1.0 + (d / 100.0)
Factor(d) == Add(F1, Div(d, F100))

\* apply_transforms.py
apply_transformation(rgb_tuple, dr, dg, db, dh, ds, dl, final_dl) ==
  EnhanceBrightness(
    EnhanceBrightness(
      EnhanceColor(HueShift(AdditiveMask(rgb_tuple, dr, dg, db), dh), Factor(ds)),
      Factor(dl)),
    Factor(final_dl))

\* get_HSL_delta.py
apply_rgb_and_hsl_transformation(rgb_tuple, dr, dg, db, dh, ds, dl) ==
  EnhanceBrightness(
    EnhanceColor(HueShift(AdditiveMask(rgb_tuple, dr, dg, db), dh), Factor(ds)),
    Factor(dl))


\* apply_regional_transform.py: the same stages without the hue shift
apply_predefined_transformation(rgb_tuple, dr, dg, db, dh, ds, dl, final_dl) ==
  EnhanceBrightness(
    EnhanceBrightness(
      EnhanceColor(AdditiveMask(rgb_tuple, dr, dg, db), Factor(ds)),
      Factor(dl)),
    Factor(final_dl))

Identity == <<F0, F0, F0, F0, F0, F0, F0>>
\* REGIONS_PER_FILE[...]["Hair"]["params"], ["Eyes"]["params"]
HairParams == <<Lit(44399, 4), Lit(-2496927, 4), Lit(-2368324, 4), Lit(-29640, 4),
                Lit(-927837, 4), Lit(304192, 4), D(-5)>>
EyesParams == <<Lit(-2548120, 4), Lit(24701, 4), Lit(-2053370, 4), Lit(31133, 4),
                Lit(-894133, 4), Lit(-309278, 4), F0>>

Call(f, rgb, q) ==
  IF f = "apply_transformation"
    THEN apply_transformation(rgb, q[1], q[2], q[3], q[4], q[5], q[6], q[7])
  ELSE IF f = "apply_predefined_transformation"
    THEN apply_predefined_transformation(rgb, q[1], q[2], q[3], q[4], q[5], q[6], q[7])
  ELSE apply_rgb_and_hsl_transformation(rgb, q[1], q[2], q[3], q[4], q[5], q[6])

----------------------------------------------------------------------------
(* Images, files and rectangles of the three image scripts.  An image is   *)
(* [w, h, px]: px holds the RGBA pixels row by row, pixel (x, y) at        *)
(* y * w + x + 1.  The textures and rectangles are scaled down to a few    *)
(* pixels; the rectangles keep the shape of the configured ones (several   *)
(* regions, several rectangles per region, an overlapping pair).           *)

TRANSPARENCY_TOLERANCE == 10
GRID_SPACING == 3

\* alpha compared one too low
is_transparentOffByOne(pixel_rgba) == pixel_rgba[4] < TRANSPARENCY_TOLERANCE - 1

\* is_transparent(pixel_rgba)
is_transparent(pixel_rgba) == pixel_rgba[4] < TRANSPARENCY_TOLERANCE

\* the size of the textures on disk
Width == 4
Height == 2

NoImage == [w |-> 0, h |-> 0, px |-> <<>>]

\* what a path holds: no file, a file that is no image, or an image
Absent == [kind |-> "absent", w |-> 0, h |-> 0, px |-> <<>>]
Garbage == [kind |-> "garbage", w |-> 0, h |-> 0, px |-> <<>>]
ImageFile(img) == [kind |-> "image", w |-> img.w, h |-> img.h, px |-> img.px]

\* pixels of the textures: opaque, alpha just at the tolerance, alpha just
\* below it, opaque
Palette ==
  << <<255, 127, 0, 255>>,
     <<0, 127, 127, TRANSPARENCY_TOLERANCE>>,
     <<127, 255, 0, TRANSPARENCY_TOLERANCE - 1>>,
     <<127, 0, 255, 255>> >>

\* a w x h texture cycling through the palette from its k-th pixel
Picture(w, h, k) ==
  [w |-> w, h |-> h, px |-> [i \in 1..(w * h) |-> Palette[((i + k) % 4) + 1]]]

\* a w x h texture of transparent pixels only
Blank(w, h) ==
  [w |-> w, h |-> h, px |-> [i \in 1..(w * h) |-> Palette[3]]]

\* Image.getpixel raises IndexError outside the image
InImage(img, x, y) == x \in 0..(img.w - 1) /\ y \in 0..(img.h - 1)
getpixel(img, x, y) == img.px[y * img.w + x + 1]

\* the coordinates of the i-th pixel of px
PixelX(img, i) == (i - 1) % img.w
PixelY(img, i) == (i - 1) \div img.w

\* for x in range(left, right): for y in range(top, bottom)
InRect(x, y, rect) ==
  rect[1] <= x /\ x < rect[3] /\ rect[2] <= y /\ y < rect[4]

\* some (x, y) of the rectangle loops lies outside the image: getpixel raises
RectOutside(img, rect) ==
  \E x \in rect[1]..(rect[3] - 1), y \in rect[2]..(rect[4] - 1) : ~InImage(img, x, y)

\* the pixel loops over one rectangle: every pixel of the rectangle is read
\* from original and, unless transparent, written to recolored as new_rgb +
\* (original_pixel[3],); the iterations read and write different pixels, so
\* the loops are the pointwise update

\* the pixels read from the image being recoloured instead of the original
RecolorRectCompounding(s, original, recolored, rect, q) ==
  [recolored EXCEPT !.px =
    [i \in 1..Len(recolored.px) |->
      IF /\ InRect(PixelX(recolored, i), PixelY(recolored, i), rect)
         /\ ~is_transparent(recolored.px[i])
        THEN (IF s = "apply_transforms"
                THEN apply_transformation(SubSeq(recolored.px[i], 1, 3),
                                          q[1], q[2], q[3], q[4], q[5], q[6], q[7])
                ELSE apply_predefined_transformation(SubSeq(recolored.px[i], 1, 3),
                                          q[1], q[2], q[3], q[4], q[5], q[6], q[7]))
             \o <<recolored.px[i][4]>>
        ELSE recolored.px[i]]]

\* apply_transforms.py 285-291, apply_regional_transform.py 109-115
RecolorRect(s, original, recolored, rect, q) ==
  [recolored EXCEPT !.px =
    [i \in 1..Len(recolored.px) |->
      IF /\ InRect(PixelX(recolored, i), PixelY(recolored, i), rect)
         /\ ~is_transparent(original.px[i])
        THEN (IF s = "apply_transforms"
                THEN apply_transformation(SubSeq(original.px[i], 1, 3),
                                          q[1], q[2], q[3], q[4], q[5], q[6], q[7])
                ELSE apply_predefined_transformation(SubSeq(original.px[i], 1, 3),
                                          q[1], q[2], q[3], q[4], q[5], q[6], q[7]))
             \o <<original.px[i][4]>>
        ELSE recolored.px[i]]]

\* get_HSL_delta.py 146-154
RecolorFitted(original, recolored, rect, q) ==
  [recolored EXCEPT !.px =
    [i \in 1..Len(recolored.px) |->
      IF /\ InRect(PixelX(recolored, i), PixelY(recolored, i), rect)
         /\ ~is_transparent(original.px[i])
        THEN apply_rgb_and_hsl_transformation(SubSeq(original.px[i], 1, 3),
                                              q[1], q[2], q[3], q[4], q[5], q[6])
             \o <<original.px[i][4]>>
        ELSE recolored.px[i]]]

\* range(a, b, step) as a sequence
Range(a, b, step) ==
  [i \in 1..(IF b > a THEN (b - a + step - 1) \div step ELSE 0) |-> a + (i - 1) * step]

\* for x in range(left, right, GRID_SPACING): for y in range(top, bottom,
\* GRID_SPACING), in loop order
GridOf(xs, ys) ==
  [i \in 1..(Len(xs) * Len(ys)) |->
    <<xs[((i - 1) \div Len(ys)) + 1], ys[((i - 1) % Len(ys)) + 1]>>]
GridPoints(rect) ==
  GridOf(Range(rect[1], rect[3], GRID_SPACING), Range(rect[2], rect[4], GRID_SPACING))

\* get_HSL_delta.py: RECOLOR_AND_SAMPLE_RECTANGLE, scaled down
RECOLOR_AND_SAMPLE_RECTANGLE == <<0, 0, 4, 1>>

\* apply_regional_transform.py: REGIONS, scaled down
REGIONS ==
  << [name |-> "Hair", params |-> HairParams, rects |-> << <<0, 0, 2, 1>> >>],
     [name |-> "Eyebrows", params |-> HairParams,
      rects |-> << <<2, 0, 3, 1>>, <<3, 0, 4, 1>> >>],
     [name |-> "Eyes", params |-> EyesParams,
      rects |-> << <<0, 1, 1, 2>>, <<1, 1, 2, 2>> >>] >>

\* apply_transforms.py: REGIONS_PER_FILE, scaled down; the hair rectangles
\* of the odd textures overlap as those of 102003 do
REGIONS_PER_FILE(texture_id) ==
  IF texture_id % 2 = 1
    THEN << [name |-> "Hair", params |-> HairParams,
             rects |-> << <<0, 0, 2, 1>>, <<1, 0, 3, 1>> >>],
            [name |-> "Eyebrows", params |-> HairParams,
             rects |-> << <<3, 0, 4, 1>> >>],
            [name |-> "Eyes", params |-> EyesParams,
             rects |-> << <<0, 1, 1, 2>> >>] >>
    ELSE << [name |-> "Hair", params |-> HairParams,
             rects |-> << <<0, 0, 3, 1>> >>],
            [name |-> "Eyebrows", params |-> HairParams,
             rects |-> << <<3, 0, 4, 1>>, <<2, 1, 3, 2>> >>],
            [name |-> "Eyes", params |-> EyesParams,
             rects |-> << <<0, 1, 1, 2>> >>] >>

\* the texture ids configured: 102001, 102002, ...
MaxTextures == 2
texture_ids == [k \in 1..MaxTextures |-> 102000 + k]

\* file names: <<prefix, texture id, suffix>>, the id 0 where the name has none
FixedPath(name) == <<name, 0, "">>
SourcePath(texture_id) == <<"texture_", texture_id, "_decolored.png">>
OutputPath(texture_id) == <<"texture_", texture_id, "_transformed.png">>
PreviewPath(texture_id) == <<"texture_", texture_id, "_regions_preview.png">>

Scripts == {"get_HSL_delta", "apply_transforms", "apply_regional_transform"}

\* the regions a script applies to the texture it has open
RegionsOf(s, texture_id) ==
  IF s = "apply_transforms" THEN REGIONS_PER_FILE(texture_id)
  ELSE IF s = "apply_regional_transform" THEN REGIONS
  ELSE << [name |-> "", params |-> <<>>, rects |-> <<RECOLOR_AND_SAMPLE_RECTANGLE>>] >>

\* the source files a script opens
SourcesOf(s) ==
  IF s = "apply_transforms" THEN {SourcePath(texture_ids[k]) : k \in 1..MaxTextures}
  ELSE IF s = "apply_regional_transform" THEN {FixedPath("texture_00_decolored.png")}
  ELSE {FixedPath("texture_00_decolored.png"), FixedPath("main_texture.png")}

\* what a source file may hold
Contents ==
  { Absent, Garbage,
    ImageFile(Picture(Width, Height, 0)),
    ImageFile(Picture(Width, Height, 1)),
    ImageFile(Blank(Width, Height)),
    ImageFile(Picture(Width - 1, Height, 0)) }

\* sum((transformed_color[j] - desired_color[j])**2 for j in range(3))
SquaredError(transformed_color, desired_color) ==
  (transformed_color[1] - desired_color[1]) * (transformed_color[1] - desired_color[1])
  + (transformed_color[2] - desired_color[2]) * (transformed_color[2] - desired_color[2])
  + (transformed_color[3] - desired_color[3]) * (transformed_color[3] - desired_color[3])

\* total_error of objective_function(q) after its loop over the first n anchors
TotalError[q \in Seq(Floats), originals \in Seq(Seq(Nat)), desireds \in Seq(Seq(Nat)), n \in Nat] ==
  IF n = 0 THEN 0
  ELSE TotalError[q, originals, desireds, n - 1]
       + SquaredError(apply_rgb_and_hsl_transformation(originals[n], q[1], q[2], q[3],
                                                       q[4], q[5], q[6]),
                      desireds[n])

\* the parameter vectors the optimizer tries, within its bounds
Candidates == {SubSeq(Identity, 1, 6), SubSeq(EyesParams, 1, 6)}
MaxEvals == 2

NoResult == [success |-> FALSE, x |-> <<>>, total_error |-> 0, message |-> ""]

----------------------------------------------------------------------------
(* Program state.                                                          *)

VARIABLES
  \* a call of a transformation function
  fn,          \* the function called
  rgb_tuple,   \* its colour argument
  params,      \* <<dr, dg, db, dh, ds, dl, final_dl>>
  tpc,         \* the stage about to run
  masked,      \* <<masked_r, masked_g, masked_b>>, <<>> before the mask stage
  temp_img,    \* the pixel of the 1x1 temp_img, <<>> before it is created
  \* a run of an image script
  script,      \* the script run
  pc,          \* the statement about to run; "done", "exit" (sys.exit) or
               \* "crashed" (uncaught exception) once the run has ended
  exc,         \* the uncaught exception, "" if none
  disk,        \* what each source path holds
  saved,       \* the paths written by Image.save, in order
  stdout,      \* the messages printed, in order
  original_img,
  desired_img,
  recolored_image,
  preview,     \* the shapes drawn on the preview copy, in order
  original_anchor_colors,
  desired_anchor_colors,
  gi,          \* position of the sampling loops in the grid
  evals,       \* number of calls of objective_function
  best,        \* the best parameters evaluated so far and their total_error
  result,      \* the OptimizeResult
  ti,          \* position of the texture loop in texture_ids
  ri,          \* position of the region loop
  ki,          \* position of the rectangle loop
  \* a call of rename_files_with_offset
  platform,    \* "posix" or "nt"
  directory,   \* file name -> content, for the files of dir_path
  file_pattern,
  offset,
  listing,     \* the names os.listdir returned
  files_to_process,
  rpc,         \* the statement about to run
  fi,          \* position of the rename loop
  renamed,     \* the messages printed by the rename loop, in order
  \* a call of consolidate_textures
  source_is_dir, \* whether source_root is a directory
  source_root, \* the items of the source root, in iterdir order
  output_dir,  \* file name -> the subdirectory its content was copied from
  cpc,         \* the statement about to run
  ci,          \* position of the loop over the items
  copied_count,
  skipped_count,
  cexc         \* the uncaught exception, "" if none

tfVars == <<fn, rgb_tuple, params, tpc, masked, temp_img>>
imVars ==
  <<script, pc, exc, disk, saved, stdout, original_img, desired_img,
    recolored_image, preview, original_anchor_colors, desired_anchor_colors,
    gi, evals, best, result, ti, ri, ki>>
rnVars ==
  <<platform, directory, file_pattern, offset, listing, files_to_process, rpc, fi, renamed>>
csVars == <<source_is_dir, source_root, output_dir, cpc, ci, copied_count, skipped_count, cexc>>
vars == <<tfVars, imVars, rnVars, csVars>>

\* no transformation call, no script, no rename in progress
TfIdle ==
  /\ fn = "" /\ rgb_tuple = <<>> /\ params = <<>>
  /\ tpc = "" /\ masked = <<>> /\ temp_img = <<>>
ImIdle ==
  /\ script = "" /\ pc = "" /\ exc = "" /\ disk = <<>> /\ saved = <<>>
  /\ stdout = <<>> /\ original_img = NoImage /\ desired_img = NoImage
  /\ recolored_image = NoImage /\ preview = <<>>
  /\ original_anchor_colors = <<>> /\ desired_anchor_colors = <<>>
  /\ gi = 0 /\ evals = 0 /\ best = NoResult /\ result = NoResult
  /\ ti = 0 /\ ri = 0 /\ ki = 0
RnIdle ==
  /\ platform = "" /\ directory = <<>> /\ file_pattern = <<>> /\ offset = 0
  /\ listing = {} /\ files_to_process = <<>> /\ rpc = "" /\ fi = 0 /\ renamed = <<>>

CsIdle ==
  /\ source_is_dir = FALSE /\ source_root = <<>> /\ output_dir = <<>> /\ cpc = "" /\ ci = 0
  /\ copied_count = 0 /\ skipped_count = 0 /\ cexc = ""

----------------------------------------------------------------------------
(* Calls of the transformation functions, one pipeline stage per step.     *)

\* channel values 0, ..., 255 in MaxLevel equal steps
MaxLevel == 2
Levels == {(k * 255) \div MaxLevel : k \in 0..MaxLevel}
Colors == {<<r, g, b>> : r \in Levels, g \in Levels, b \in Levels}

ParamCases ==
  { Identity,
    [Identity EXCEPT ![4] = F360],
    [Identity EXCEPT ![4] = D(180)],
    [Identity EXCEPT ![4] = D(-180)],
    HairParams,
    EyesParams,
    [HairParams EXCEPT ![6] = D(-100)],
    [EyesParams EXCEPT ![5] = D(-100), ![6] = F0],
    <<D(1000), D(-1000), Lit(-2555, 1), D(90), D(50), D(-100), D(50)>>,
    <<D(-100000), D(100000), Lit(5, 1), D(-90), D(-100), F0, F0>> }

Functions ==
  {"apply_transformation", "apply_rgb_and_hsl_transformation",
   "apply_predefined_transformation"}

\* the 6-parameter function takes no final_dl
ParamsOf(f) ==
  IF f = "apply_rgb_and_hsl_transformation"
    THEN {[q EXCEPT ![7] = F0] : q \in ParamCases}
    ELSE ParamCases

TfInit ==
  /\ fn \in Functions
  /\ rgb_tuple \in Colors
  /\ params \in ParamsOf(fn)
  /\ tpc = "mask"
  /\ masked = <<>>
  /\ temp_img = <<>>
  /\ ImIdle /\ RnIdle /\ CsIdle

Mask ==
  /\ tpc = "mask"
  /\ masked' = AdditiveMask(rgb_tuple, params[1], params[2], params[3])
  /\ IF fn = "apply_predefined_transformation"
       THEN \* temp_img = Image.new("RGB", (1, 1), masked); no hue stage
            /\ temp_img' = masked'
            /\ tpc' = "saturation"
       ELSE /\ temp_img' = temp_img
            /\ tpc' = "hue"
  /\ UNCHANGED <<fn, rgb_tuple, params, imVars, rnVars, csVars>>

Hue ==
  /\ tpc = "hue"
  /\ temp_img' = HueShift(masked, params[4])
  /\ tpc' = "saturation"
  /\ UNCHANGED <<fn, rgb_tuple, params, masked, imVars, rnVars, csVars>>

Saturation ==
  /\ tpc = "saturation"
  /\ temp_img' = EnhanceColor(temp_img, Factor(params[5]))
  /\ tpc' = "lightness"
  /\ UNCHANGED <<fn, rgb_tuple, params, masked, imVars, rnVars, csVars>>

Lightness ==
  /\ tpc = "lightness"
  /\ temp_img' = EnhanceBrightness(temp_img, Factor(params[6]))
  /\ tpc' = IF fn = "apply_rgb_and_hsl_transformation" THEN "return" ELSE "final"
  /\ UNCHANGED <<fn, rgb_tuple, params, masked, imVars, rnVars, csVars>>

FinalLightness ==
  /\ tpc = "final"
  /\ temp_img' = EnhanceBrightness(temp_img, Factor(params[7]))
  /\ tpc' = "return"
  /\ UNCHANGED <<fn, rgb_tuple, params, masked, imVars, rnVars, csVars>>

TfNext == Mask \/ Hue \/ Saturation \/ Lightness \/ FinalLightness

SpecTransform == TfInit /\ [][TfNext]_vars

\* the value returned: temp_img.getpixel((0, 0))
Returned == tpc = "return"

Byte == 0..255

----------------------------------------------------------------------------
(* Runs of the image scripts: get_HSL_delta.py (module level),             *)
(* apply_transforms.py main, apply_regional_transform.py main.             *)

ApplyScripts == {"apply_transforms", "apply_regional_transform"}

\* the texture id of the current iteration, 0 for the scripts with one image
texture_id == IF script = "apply_transforms" THEN texture_ids[ti] ELSE 0

source_image_path ==
  IF script = "apply_transforms" THEN SourcePath(texture_id)
  ELSE FixedPath("texture_00_decolored.png")
output_path ==
  IF script = "apply_transforms" THEN OutputPath(texture_id)
  ELSE IF script = "apply_regional_transform" THEN FixedPath("final_transformed_image.png")
  ELSE FixedPath("recolored_output.png")
preview_path ==
  IF script = "apply_transforms" THEN PreviewPath(texture_id)
  ELSE IF script = "apply_regional_transform" THEN FixedPath("regions_preview.png")
  ELSE FixedPath("anchor_points_preview.png")

\* Image.open(path).convert("RGBA") of an image file
Loaded(file) == [w |-> file.w, h |-> file.h, px |-> file.px]

ImInit ==
  /\ script \in Scripts
  /\ pc = IF script = "get_HSL_delta" THEN "load" ELSE "open"
  /\ exc = ""
  /\ disk \in [SourcesOf(script) -> Contents]
  /\ saved = <<>>
  /\ stdout = <<>>
  /\ original_img = NoImage
  /\ desired_img = NoImage
  /\ recolored_image = NoImage
  /\ preview = <<>>
  /\ original_anchor_colors = <<>>
  /\ desired_anchor_colors = <<>>
  /\ gi = 1
  /\ evals = 0
  /\ best = NoResult
  /\ result = NoResult
  /\ ti = 1
  /\ ri = 1
  /\ ki = 1
  /\ TfIdle /\ RnIdle /\ CsIdle

\* an exception nothing catches ends the run
Raise(e) == pc' = "crashed" /\ exc' = e

\* get_HSL_delta.py 56-65: load both images
Load ==
  /\ script = "get_HSL_delta" /\ pc = "load"
  /\ LET original == disk[FixedPath("texture_00_decolored.png")]
         desired == disk[FixedPath("main_texture.png")]
     IN CASE original.kind = "absent" ->
               /\ stdout' = Append(stdout, "Error: Could not find image file")
               /\ pc' = "exit"
               /\ UNCHANGED <<exc, original_img, desired_img>>
          [] original.kind = "garbage" ->
               /\ Raise("UnidentifiedImageError")
               /\ UNCHANGED <<stdout, original_img, desired_img>>
          [] original.kind = "image" /\ desired.kind = "absent" ->
               /\ original_img' = Loaded(original)
               /\ stdout' = Append(stdout, "Error: Could not find image file")
               /\ pc' = "exit"
               /\ UNCHANGED <<exc, desired_img>>
          [] original.kind = "image" /\ desired.kind = "garbage" ->
               /\ original_img' = Loaded(original)
               /\ Raise("UnidentifiedImageError")
               /\ UNCHANGED <<stdout, desired_img>>
          [] original.kind = "image" /\ desired.kind = "image" ->
               /\ original_img' = Loaded(original)
               /\ desired_img' = Loaded(desired)
               /\ stdout' = stdout \o <<"Images loaded successfully.", "Sampling anchor points">>
               /\ pc' = IF Len(GridPoints(RECOLOR_AND_SAMPLE_RECTANGLE)) = 0
                          THEN "check" ELSE "sample"
               /\ exc' = exc
  /\ UNCHANGED <<script, disk, saved, recolored_image, preview,
                 original_anchor_colors, desired_anchor_colors, gi, evals, best,
                 result, ti, ri, ki, tfVars, rnVars, csVars>>

\* the sampling loops advance to the next grid point
NextGridPoint ==
  /\ gi' = gi + 1
  /\ pc' = IF gi < Len(GridPoints(RECOLOR_AND_SAMPLE_RECTANGLE)) THEN "sample" ELSE "check"

\* get_HSL_delta.py 72-78: one iteration of the sampling loops
Sample ==
  /\ script = "get_HSL_delta" /\ pc = "sample"
  /\ LET x == GridPoints(RECOLOR_AND_SAMPLE_RECTANGLE)[gi][1]
         y == GridPoints(RECOLOR_AND_SAMPLE_RECTANGLE)[gi][2]
     IN IF ~InImage(original_img, x, y)
          THEN /\ Raise("IndexError")
               /\ UNCHANGED <<original_anchor_colors, desired_anchor_colors, preview, gi>>
        ELSE IF is_transparent(getpixel(original_img, x, y))
          THEN /\ NextGridPoint
               /\ UNCHANGED <<exc, original_anchor_colors, desired_anchor_colors, preview>>
        ELSE IF ~InImage(desired_img, x, y)
          THEN /\ original_anchor_colors' =
                    Append(original_anchor_colors, SubSeq(getpixel(original_img, x, y), 1, 3))
               /\ Raise("IndexError")
               /\ UNCHANGED <<desired_anchor_colors, preview, gi>>
        ELSE /\ original_anchor_colors' =
                  Append(original_anchor_colors, SubSeq(getpixel(original_img, x, y), 1, 3))
             /\ desired_anchor_colors' =
                  Append(desired_anchor_colors, SubSeq(getpixel(desired_img, x, y), 1, 3))
             /\ preview' = Append(preview, <<"rectangle", <<x - 1, y - 1, x + 1, y + 1>>>>)
             /\ NextGridPoint
             /\ exc' = exc
  /\ UNCHANGED <<script, disk, saved, stdout, original_img, desired_img,
                 recolored_image, evals, best, result, ti, ri, ki, tfVars, rnVars, csVars>>

\* the empty-anchor test left out: the script goes on whatever was sampled
CheckAnchorsSkipped ==
  /\ script = "get_HSL_delta" /\ pc = "check"
  /\ pc' = "save_preview"
  /\ UNCHANGED <<script, exc, disk, saved, stdout, original_img, desired_img,
                 recolored_image, preview, original_anchor_colors,
                 desired_anchor_colors, gi, evals, best, result, ti, ri, ki,
                 tfVars, rnVars, csVars>>

\* get_HSL_delta.py 80-82: if not original_anchor_colors: print, sys.exit()
CheckAnchors ==
  /\ script = "get_HSL_delta" /\ pc = "check"
  /\ IF Len(original_anchor_colors) = 0
       THEN /\ stdout' = Append(stdout, "Error: No anchor points found in the specified rectangle.")
            /\ pc' = "exit"
       ELSE /\ stdout' = stdout
            /\ pc' = "save_preview"
  /\ UNCHANGED <<script, exc, disk, saved, original_img, desired_img,
                 recolored_image, preview, original_anchor_colors,
                 desired_anchor_colors, gi, evals, best, result, ti, ri, ki,
                 tfVars, rnVars, csVars>>

\* get_HSL_delta.py 84-85: preview_img.save, print
SaveAnchorPreview ==
  /\ script = "get_HSL_delta" /\ pc = "save_preview"
  /\ saved' = Append(saved, preview_path)
  /\ stdout' = Append(stdout, "Found anchor points.")
  /\ pc' = "start"
  /\ UNCHANGED <<script, exc, disk, original_img, desired_img, recolored_image,
                 preview, original_anchor_colors, desired_anchor_colors, gi,
                 evals, best, result, ti, ri, ki, tfVars, rnVars, csVars>>

\* get_HSL_delta.py 120-122: print, differential_evolution is called
StartOptimizer ==
  /\ script = "get_HSL_delta" /\ pc = "start"
  /\ stdout' = Append(stdout, "Starting global optimization")
  /\ pc' = "optimize"
  /\ UNCHANGED <<script, exc, disk, saved, original_img, desired_img,
                 recolored_image, preview, original_anchor_colors,
                 desired_anchor_colors, gi, evals, best, result, ti, ri, ki,
                 tfVars, rnVars, csVars>>

\* get_HSL_delta.py 89-107: the optimizer calls objective_function(q); the
\* value returned is sqrt(total_error / N)
Objective ==
  /\ script = "get_HSL_delta" /\ pc = "optimize"
  /\ evals < MaxEvals
  /\ \E q \in Candidates :
       IF Len(original_anchor_colors) = 0
         THEN /\ Raise("ZeroDivisionError")
              /\ UNCHANGED <<evals, best>>
         ELSE /\ evals' = evals + 1
              /\ best' =
                   LET total_error == TotalError[q, original_anchor_colors,
                                                 desired_anchor_colors,
                                                 Len(original_anchor_colors)]
                   IN IF evals = 0 \/ total_error < best.total_error
                        THEN [best EXCEPT !.x = q, !.total_error = total_error]
                        ELSE best
              /\ UNCHANGED <<pc, exc>>
  /\ UNCHANGED <<script, disk, saved, stdout, original_img, desired_img,
                 recolored_image, preview, original_anchor_colors,
                 desired_anchor_colors, gi, result, ti, ri, ki, tfVars, rnVars, csVars>>

\* get_HSL_delta.py 122: differential_evolution returns its OptimizeResult,
\* successful or not, after at least one evaluation
OptimizerReturns ==
  /\ script = "get_HSL_delta" /\ pc = "optimize"
  /\ evals > 0
  /\ \E success \in BOOLEAN :
       result' = [best EXCEPT !.success = success,
                              !.message = IF success
                                            THEN "Optimization terminated successfully."
                                            ELSE "Maximum number of iterations has been exceeded."]
  /\ pc' = "result"
  /\ UNCHANGED <<script, exc, disk, saved, stdout, original_img, desired_img,
                 recolored_image, preview, original_anchor_colors,
                 desired_anchor_colors, gi, evals, best, ti, ri, ki, tfVars, rnVars, csVars>>

\* the result recoloured whatever result.success says
ReportIgnoringSuccess ==
  /\ script = "get_HSL_delta" /\ pc = "result"
  /\ stdout' = stdout \o <<"Global Optimization Successful!",
                           "Applying the found transformation to the specified rectangle...">>
  /\ recolored_image' = original_img
  /\ pc' = "recolor"
  /\ UNCHANGED <<script, exc, disk, saved, original_img, desired_img, preview,
                 original_anchor_colors, desired_anchor_colors, gi, evals, best,
                 result, ti, ri, ki, tfVars, rnVars, csVars>>

\* get_HSL_delta.py 125-143, 159-161: if result.success: print the
\* parameters, recolored_image = original_img.copy(); else: print the failure
\* and result.message
Report ==
  /\ script = "get_HSL_delta" /\ pc = "result"
  /\ IF result.success
       THEN /\ stdout' = stdout \o <<"Global Optimization Successful!",
                                     "Applying the found transformation to the specified rectangle...">>
            /\ recolored_image' = original_img
            /\ pc' = "recolor"
       ELSE /\ stdout' = stdout \o <<"Optimization failed and could not find a solution.",
                                     result.message>>
            /\ recolored_image' = recolored_image
            /\ pc' = "done"
  /\ UNCHANGED <<script, exc, disk, saved, original_img, desired_img, preview,
                 original_anchor_colors, desired_anchor_colors, gi, evals, best,
                 result, ti, ri, ki, tfVars, rnVars, csVars>>

\* get_HSL_delta.py 144-154: the pixel loops over the rectangle
Recolor ==
  /\ script = "get_HSL_delta" /\ pc = "recolor"
  /\ IF RectOutside(original_img, RECOLOR_AND_SAMPLE_RECTANGLE)
       THEN /\ Raise("IndexError")
            /\ UNCHANGED recolored_image
       ELSE /\ recolored_image' =
                 RecolorFitted(original_img, recolored_image,
                               RECOLOR_AND_SAMPLE_RECTANGLE, result.x)
            /\ pc' = "save"
            /\ exc' = exc
  /\ UNCHANGED <<script, disk, saved, stdout, original_img, desired_img, preview,
                 original_anchor_colors, desired_anchor_colors, gi, evals, best,
                 result, ti, ri, ki, tfVars, rnVars, csVars>>

\* get_HSL_delta.py 156-157: recolored_image.save, print
SaveRecolored ==
  /\ script = "get_HSL_delta" /\ pc = "save"
  /\ saved' = Append(saved, output_path)
  /\ stdout' = Append(stdout, "Recolor complete.")
  /\ pc' = "done"
  /\ UNCHANGED <<script, exc, disk, original_img, desired_img, recolored_image,
                 preview, original_anchor_colors, desired_anchor_colors, gi,
                 evals, best, result, ti, ri, ki, tfVars, rnVars, csVars>>

\* the texture loop goes to its next iteration, or main returns
NextTexture ==
  IF script = "apply_transforms" /\ ti < Len(texture_ids)
    THEN pc' = "open" /\ ti' = ti + 1
    ELSE pc' = "done" /\ ti' = ti

\* apply_transforms.py 254-270, apply_regional_transform.py 79-94: open the
\* source image, copy it twice
Open ==
  /\ script \in ApplyScripts /\ pc = "open"
  /\ LET file == disk[source_image_path]
     IN CASE file.kind = "absent" ->
               /\ stdout' = Append(stdout, "Error: Could not find the source image file")
               /\ IF script = "apply_transforms"
                    THEN NextTexture
                    ELSE pc' = "exit" /\ ti' = ti
               /\ UNCHANGED <<exc, original_img, recolored_image, preview, ri, ki>>
          [] file.kind = "garbage" ->
               /\ Raise("UnidentifiedImageError")
               /\ UNCHANGED <<stdout, original_img, recolored_image, preview, ti, ri, ki>>
          [] file.kind = "image" ->
               /\ original_img' = Loaded(file)
               /\ recolored_image' = Loaded(file)
               /\ preview' = <<>>
               /\ stdout' = stdout \o <<"Image loaded successfully.",
                                        "Applying transformations to defined regions...">>
               /\ ri' = 1
               /\ ki' = 1
               /\ pc' = "rect"
               /\ UNCHANGED <<exc, ti>>
  /\ UNCHANGED <<script, disk, saved, desired_img, original_anchor_colors,
                 desired_anchor_colors, gi, evals, best, result, tfVars, rnVars, csVars>>

\* apply_transforms.py 273-291, apply_regional_transform.py 97-115: one
\* iteration of the rectangle loop: draw on the preview, recolour the pixels
ProcessRect ==
  /\ script \in ApplyScripts /\ pc = "rect"
  /\ LET regions == RegionsOf(script, texture_id)
         rect == regions[ri].rects[ki]
     IN /\ stdout' = IF ki = 1 THEN Append(stdout, "Processing Region") ELSE stdout
        /\ preview' = preview \o << <<"rectangle", rect>>, <<"text", regions[ri].name, ki>> >>
        /\ IF RectOutside(original_img, rect)
             THEN /\ Raise("IndexError")
                  /\ UNCHANGED <<recolored_image, ri, ki>>
             ELSE /\ recolored_image' =
                       RecolorRect(script, original_img, recolored_image, rect,
                                   regions[ri].params)
                  /\ exc' = exc
                  /\ IF ki < Len(regions[ri].rects)
                       THEN /\ ki' = ki + 1
                            /\ UNCHANGED <<ri, pc>>
                     ELSE IF ri < Len(regions)
                       THEN /\ ri' = ri + 1
                            /\ ki' = 1
                            /\ pc' = pc
                     ELSE /\ pc' = "save"
                          /\ UNCHANGED <<ri, ki>>
  /\ UNCHANGED <<script, disk, saved, original_img, desired_img,
                 original_anchor_colors, desired_anchor_colors, gi, evals, best,
                 result, ti, tfVars, rnVars, csVars>>

\* apply_transforms.py 294-296, apply_regional_transform.py 118-120
SaveOutput ==
  /\ script \in ApplyScripts /\ pc = "save"
  /\ saved' = Append(saved, output_path)
  /\ stdout' = Append(stdout, "All transformations applied.")
  /\ pc' = "save_preview"
  /\ UNCHANGED <<script, exc, disk, original_img, desired_img, recolored_image,
                 preview, original_anchor_colors, desired_anchor_colors, gi,
                 evals, best, result, ti, ri, ki, tfVars, rnVars, csVars>>

\* apply_transforms.py 299-301, apply_regional_transform.py 123-125
SavePreview ==
  /\ script \in ApplyScripts /\ pc = "save_preview"
  /\ saved' = Append(saved, preview_path)
  /\ stdout' = Append(stdout, "A map of the defined regions was saved")
  /\ NextTexture
  /\ UNCHANGED <<script, exc, disk, original_img, desired_img, recolored_image,
                 preview, original_anchor_colors, desired_anchor_colors, gi,
                 evals, best, result, ri, ki, tfVars, rnVars, csVars>>

ImNext ==
  \/ Load \/ Sample \/ CheckAnchors \/ SaveAnchorPreview \/ StartOptimizer
  \/ Objective \/ OptimizerReturns \/ Report \/ Recolor \/ SaveRecolored
  \/ Open \/ ProcessRect \/ SaveOutput \/ SavePreview

SpecImages == ImInit /\ [][ImNext]_vars

\* the run has ended: main returned, sys.exit() was called, or an exception
\* was not caught
Terminated == pc \in {"done", "exit", "crashed"}

----------------------------------------------------------------------------
(* file_renamer.py: rename_files_with_offset.  A file name is a sequence   *)
(* of characters; the directory maps the names of its files to their       *)
(* contents.  file_pattern is a literal prefix followed by (\d+).          *)

DigitChars == <<"0", "1", "2", "3", "4", "5", "6", "7", "8", "9">>
IsDigit(c) == \E d \in 1..10 : DigitChars[d] = c
DigitValue(c) == (CHOOSE d \in 1..10 : DigitChars[d] = c) - 1

\* int(num_str)
RECURSIVE ParseInt(_)
ParseInt(s) ==
  IF s = <<>> THEN 0
  ELSE ParseInt(SubSeq(s, 1, Len(s) - 1)) * 10 + DigitValue(s[Len(s)])

\* str(n)
RECURSIVE Str(_)
Str(n) ==
  IF n < 0 THEN <<"-">> \o Str(-n)
  ELSE IF n < 10 THEN <<DigitChars[n + 1]>>
  ELSE Str(n \div 10) \o <<DigitChars[(n % 10) + 1]>>

\* the end of the longest run of digits of s that starts at position i
RECURSIVE DigitRunEnd(_, _)
DigitRunEnd(s, i) ==
  IF i < Len(s) /\ IsDigit(s[i + 1]) THEN DigitRunEnd(s, i + 1) ELSE i

\* pattern.match(fname): the prefix, then at least one digit
Matches(prefix, fname) ==
  /\ Len(fname) > Len(prefix)
  /\ SubSeq(fname, 1, Len(prefix)) = prefix
  /\ IsDigit(fname[Len(prefix) + 1])

\* match.group(1)
Group1(prefix, fname) ==
  SubSeq(fname, Len(prefix) + 1, DigitRunEnd(fname, Len(prefix) + 1))

\* s.replace(old, new, 1), old occurring in s
ReplaceFirst(s, old, new) ==
  LET at == CHOOSE i \in 1..Len(s) :
              /\ i + Len(old) - 1 <= Len(s)
              /\ SubSeq(s, i, i + Len(old) - 1) = old
              /\ \A j \in 1..(i - 1) : SubSeq(s, j, j + Len(old) - 1) # old
  IN SubSeq(s, 1, at - 1) \o new \o SubSeq(s, at + Len(old), Len(s))

\* fname.replace(num_str, str(new_num), 1)
NewName(fname, num_str, new_num) == ReplaceFirst(fname, num_str, Str(new_num))

\* the entries (fname, num_str, num) of the matching names of a listing
Entries(prefix, names) ==
  {<<fname, Group1(prefix, fname), ParseInt(Group1(prefix, fname))>> :
     fname \in {n \in names : Matches(prefix, n)}}

\* the orders os.listdir followed by the stable sort on num can give:
\* any arrangement of the entries with num ascending
SortedOrders(entries) ==
  {s \in [1..Cardinality(entries) -> entries] :
     /\ \A i, j \in 1..Cardinality(entries) : i < j => s[i] # s[j] /\ s[i][3] <= s[j][3]}

\* the file names a directory may hold at the call
MaxFiles == 3
FileNames ==
  {<<"f">> \o Str(n) : n \in 1..MaxFiles}
    \cup {<<"f", "0", "1">>, <<"g", "1">>}
Offsets == {-1, 0, 1, 2}

RnInit ==
  /\ platform \in {"posix", "nt"}
  /\ \E names \in SUBSET FileNames : directory = [n \in names |-> n]
  /\ file_pattern = <<"f">>
  /\ offset \in Offsets
  /\ listing = {}
  /\ files_to_process = <<>>
  /\ rpc = "collect"
  /\ fi = 1
  /\ renamed = <<>>
  /\ TfIdle /\ ImIdle /\ CsIdle

\* file_renamer.py 29-45: list the directory, keep the matching names, sort
Collect ==
  /\ rpc = "collect"
  /\ listing' = DOMAIN directory
  /\ files_to_process' \in SortedOrders(Entries(file_pattern, DOMAIN directory))
  /\ rpc' = IF Entries(file_pattern, DOMAIN directory) = {} THEN "done" ELSE "rename"
  /\ UNCHANGED <<platform, directory, file_pattern, offset, fi, renamed, tfVars, imVars, csVars>>

\* os.rename(old, new) on a directory: what it does, "" or the OSError
RenameError(dir, old, new) ==
  IF old \notin DOMAIN dir THEN "FileNotFoundError"
  ELSE IF new # old /\ new \in DOMAIN dir /\ platform = "nt" THEN "FileExistsError"
  ELSE ""
RenameResult(dir, old, new) ==
  IF RenameError(dir, old, new) # "" \/ new = old THEN dir
  ELSE [n \in (DOMAIN dir \ {old}) \cup {new} |-> IF n = new THEN dir[old] ELSE dir[n]]

\* file_renamer.py 48-60: one iteration of the rename loop
RenameOne ==
  /\ rpc = "rename"
  /\ LET fname == files_to_process[fi][1]
         new_fname == NewName(fname, files_to_process[fi][2], files_to_process[fi][3] + offset)
     IN /\ directory' = RenameResult(directory, fname, new_fname)
        /\ renamed' = Append(renamed,
                        IF RenameError(directory, fname, new_fname) = ""
                          THEN <<"Renamed", fname, new_fname>>
                          ELSE <<"Error renaming", fname, RenameError(directory, fname, new_fname)>>)
  /\ fi' = fi + 1
  /\ rpc' = IF fi < Len(files_to_process) THEN "rename" ELSE "done"
  /\ UNCHANGED <<platform, file_pattern, offset, listing, files_to_process, tfVars, imVars, csVars>>

RnNext == Collect \/ RenameOne

SpecRename == RnInit /\ [][RnNext]_vars

----------------------------------------------------------------------------
(* file_source_copy_rename.py: consolidate_textures.  An item of the       *)
(* source root is a file or a character directory; of a character          *)
(* directory the model keeps what the two search paths and the texture     *)
(* path hold, and whether copying the texture fails.                       *)

\* id_pattern.match(fname): ^(\d{6})\..+
MatchesId(fname) ==
  /\ Len(fname) >= 8
  /\ \A i \in 1..6 : IsDigit(fname[i])
  /\ fname[7] = "."

\* a search path: no directory, a directory that cannot be listed, or a
\* directory with its listing
NoDir == [kind |-> "absent", files |-> <<>>]
Unreadable == [kind |-> "unreadable", files |-> <<>>]
Dir(files) == [kind |-> "dir", files |-> files]

\* the loop over os.listdir(path): the id of the first matching name
RECURSIVE FirstId(_, _)
FirstId(files, i) ==
  IF i > Len(files) THEN <<>>
  ELSE IF MatchesId(files[i]) THEN SubSeq(files[i], 1, 6)
  ELSE FirstId(files, i + 1)

\* find_texture_id from its i-th search path on: the id found, <<>> for
\* None, or the exception os.listdir raises
RECURSIVE FindFrom(_, _)
FindFrom(search_paths, i) ==
  IF i > Len(search_paths) THEN [raised |-> "", id |-> <<>>]
  ELSE IF search_paths[i].kind = "absent" THEN FindFrom(search_paths, i + 1)
  ELSE IF search_paths[i].kind = "unreadable"
    THEN [raised |-> "PermissionError", id |-> <<>>]
  ELSE IF FirstId(search_paths[i].files, 1) # <<>>
    THEN [raised |-> "", id |-> FirstId(search_paths[i].files, 1)]
  ELSE FindFrom(search_paths, i + 1)

\* find_texture_id(character_dir)
find_texture_id(character_dir) ==
  FindFrom(<<character_dir.MonoBehaviour, character_dir.TextAsset>>, 1)

IdFile(n) == Str(n) \o <<".", "j", "s", "o", "n">>

File == [is_dir |-> FALSE, MonoBehaviour |-> NoDir, TextAsset |-> NoDir,
         texture |-> FALSE, copy_fails |-> FALSE]
CharacterDir(mono, text, texture, copy_fails) ==
  [is_dir |-> TRUE, MonoBehaviour |-> mono, TextAsset |-> text,
   texture |-> texture, copy_fails |-> copy_fails]

\* the items a source root may hold
Items ==
  { File,
    CharacterDir(Dir(<<<<"a", ".", "t", "x", "t">>, IdFile(102001)>>), NoDir, TRUE, FALSE),
    CharacterDir(NoDir, Dir(<<IdFile(102002)>>), TRUE, FALSE),
    CharacterDir(Dir(<<IdFile(10200), IdFile(1020011), Str(102003) \o <<".">>>>),
                 Dir(<<>>), TRUE, FALSE),
    CharacterDir(Dir(<<IdFile(102001)>>), NoDir, FALSE, FALSE),
    CharacterDir(Dir(<<IdFile(102004)>>), NoDir, TRUE, TRUE),
    CharacterDir(Unreadable, Dir(<<IdFile(102005)>>), TRUE, FALSE),
    CharacterDir(NoDir, NoDir, TRUE, FALSE) }

MaxItems == 2

CsInit ==
  /\ source_is_dir \in BOOLEAN
  /\ \E n \in 0..MaxItems : source_root \in [1..n -> Items]
  /\ ~source_is_dir => source_root = <<>>
  /\ output_dir = <<>>
  /\ cpc = "start"
  /\ ci = 1
  /\ copied_count = 0
  /\ skipped_count = 0
  /\ cexc = ""
  /\ TfIdle /\ ImIdle /\ RnIdle

\* file_source_copy_rename.py 31-43: check the source root, make the output
\* directory, zero the counters
Start ==
  /\ cpc = "start"
  /\ cpc' = IF ~source_is_dir THEN "return"
            ELSE IF Len(source_root) = 0 THEN "summary" ELSE "loop"
  /\ UNCHANGED <<source_is_dir, source_root, output_dir, ci, copied_count,
                 skipped_count, cexc, tfVars, imVars, rnVars>>

\* the loop goes to its next item
NextItem ==
  /\ ci' = ci + 1
  /\ cpc' = IF ci < Len(source_root) THEN "loop" ELSE "summary"

\* file_source_copy_rename.py 45-75: one iteration of the loop over the
\* items of the source root
ProcessItem ==
  /\ cpc = "loop"
  /\ IF ~source_root[ci].is_dir
       THEN /\ NextItem
            /\ UNCHANGED <<output_dir, copied_count, skipped_count, cexc>>
     ELSE IF find_texture_id(source_root[ci]).raised # ""
       THEN /\ cexc' = find_texture_id(source_root[ci]).raised
            /\ cpc' = "crashed"
            /\ UNCHANGED <<output_dir, ci, copied_count, skipped_count>>
     ELSE IF find_texture_id(source_root[ci]).id = <<>>
       THEN /\ skipped_count' = skipped_count + 1
            /\ NextItem
            /\ UNCHANGED <<output_dir, copied_count, cexc>>
     ELSE IF ~source_root[ci].texture
       THEN /\ skipped_count' = skipped_count + 1
            /\ NextItem
            /\ UNCHANGED <<output_dir, copied_count, cexc>>
     ELSE IF source_root[ci].copy_fails
       THEN /\ skipped_count' = skipped_count + 1
            /\ NextItem
            /\ UNCHANGED <<output_dir, copied_count, cexc>>
     ELSE /\ output_dir' =
               [n \in DOMAIN output_dir \cup {find_texture_id(source_root[ci]).id} |->
                  IF n = find_texture_id(source_root[ci]).id THEN ci ELSE output_dir[n]]
          /\ copied_count' = copied_count + 1
          /\ NextItem
          /\ UNCHANGED <<skipped_count, cexc>>
  /\ UNCHANGED <<source_is_dir, source_root, tfVars, imVars, rnVars>>

\* file_source_copy_rename.py 77-79: print the counts
Summary ==
  /\ cpc = "summary"
  /\ cpc' = "done"
  /\ UNCHANGED <<source_is_dir, source_root, output_dir, ci, copied_count,
                 skipped_count, cexc, tfVars, imVars, rnVars>>

CsNext == Start \/ ProcessItem \/ Summary

SpecConsolidate == CsInit /\ [][CsNext]_vars

----------------------------------------------------------------------------
(* Properties.                                                             *)

\* C2: with identity parameters (all seven deltas 0) the transform returns
\* exactly the input colour
C2_IdentityReturnsInput ==
  Returned /\ params = Identity => temp_img = rgb_tuple

\* C3: after the additive-mask stage each channel is an integer in [0, 255],
\* whatever the magnitude of dr, dg, db
C3_MaskedInByteRange ==
  tpc # "mask" => masked \in Byte \X Byte \X Byte

\* the mask stage has run with deltas beyond +-255 on a colour they push out
\* of range, and on one with a channel strictly inside the range
C3_Witness ==
  /\ tpc = "hue"
  /\ \/ params[1] = D(1000) /\ params[2] = D(-1000) /\ rgb_tuple = <<255, 0, 127>>
     \/ params = HairParams /\ masked[1] \notin {0, 255}

\* C4: with dl = -100 the transform returns black, whatever the colour and
\* the other parameters
C4_FullDarkeningIsBlack ==
  Returned /\ params[6] = D(-100) => temp_img = <<0, 0, 0>>

\* a call with dl = -100, a colour that is not black and other parameters
\* that are not 0 has returned
C4_Witness ==
  /\ Returned
  /\ params[6] = D(-100)
  /\ rgb_tuple = <<255, 127, 0>>
  /\ params[7] = D(50)
  /\ masked # <<0, 0, 0>>

\* C5: with ds = -100 and dl = final_dl = 0 the transform returns a colour
\* whose R, G and B are equal
C5_FullDesaturationIsGray ==
  Returned /\ params[5] = D(-100) /\ params[6] = F0 /\ params[7] = F0
    => temp_img[1] = temp_img[2] /\ temp_img[2] = temp_img[3]

\* a call with ds = -100, dl = final_dl = 0 has returned for a masked colour
\* that is not gray, with a gray that is neither black nor white
C5_Witness ==
  /\ Returned
  /\ params[5] = D(-100) /\ params[6] = F0 /\ params[7] = F0
  /\ masked[1] # masked[2]
  /\ temp_img[1] \notin {0, 255}

\* C6: the hue shift has period 360: dh and dh - 360 (360 and 0, 180 and
\* -180) return the same colour, the other parameters being equal
C6_HuePeriod360 ==
  Returned /\ params[4] \in {F360, D(180)}
    => temp_img = Call(fn, rgb_tuple, [params EXCEPT ![4] = Sub(params[4], F360)])


\* C11: apply_transformation called with final_dl = 0 returns the colour
\* apply_rgb_and_hsl_transformation returns for the same colour and the same
\* (dr, dg, db, dh, ds, dl): the final lightness stage changes nothing
C11_FinalStageIdentityAtZero ==
  tpc = "return" /\ fn = "apply_transformation" /\ params[7] = F0
    => temp_img = apply_rgb_and_hsl_transformation(rgb_tuple, params[1], params[2],
                    params[3], params[4], params[5], params[6])

\* apply_transformation has returned for the parameters configured for the
\* eyes (final_dl = 0, the other six not 0) with a colour that is not black
C11_Witness ==
  /\ tpc = "return" /\ fn = "apply_transformation"
  /\ params = EyesParams
  /\ rgb_tuple = <<255, 255, 255>>
  /\ temp_img # <<0, 0, 0>>

\* C12: apply_predefined_transformation returns the colour
\* apply_transformation returns for the same colour and the same seven
\* parameters, the hue shift included
C12_RegionalAppliesHueShift ==
  tpc = "return" /\ fn = "apply_predefined_transformation"
    => temp_img = apply_transformation(rgb_tuple, params[1], params[2], params[3],
                                       params[4], params[5], params[6], params[7])

\* the paths written so far
Saved == {saved[i] : i \in 1..Len(saved)}
\* the messages printed so far
Printed == {stdout[i] : i \in 1..Len(stdout)}

\* pixel i of the open texture lies in one of the rectangles configured for it
InSomeRect(i) ==
  \E r \in 1..Len(RegionsOf(script, texture_id)) :
    \E k \in 1..Len(RegionsOf(script, texture_id)[r].rects) :
      LET rect == RegionsOf(script, texture_id)[r].rects[k]
          x == (i - 1) % original_img.w
          y == (i - 1) \div original_img.w
      IN rect[1] <= x /\ x < rect[3] /\ rect[2] <= y /\ y < rect[4]

\* C1: once the rectangle loops have finished, every pixel that lies in no
\* configured rectangle (half-open) and every pixel whose alpha is below 10
\* has the same RGBA value in the recolored image as in the original image
C1_UntouchedPixelsUnchanged ==
  pc = "save" =>
    /\ Len(recolored_image.px) = Len(original_img.px)
    /\ \A i \in 1..Len(original_img.px) :
         original_img.px[i][4] < 10 \/ ~InSomeRect(i)
           => recolored_image.px[i] = original_img.px[i]

\* the rectangle loops of apply_transforms.py have finished on a texture with
\* an opaque pixel outside every rectangle, a pixel of alpha 9 inside one, and
\* a pixel that was recoloured
C1_Witness ==
  /\ script = "apply_transforms" /\ pc = "save"
  /\ \E i \in 1..Len(original_img.px) : original_img.px[i][4] = 255 /\ ~InSomeRect(i)
  /\ \E i \in 1..Len(original_img.px) : original_img.px[i][4] = 9 /\ InSomeRect(i)
  /\ \E i \in 1..Len(original_img.px) : recolored_image.px[i] # original_img.px[i]

\* the sampling loops of get_HSL_delta.py have run to their end
SamplingFinished ==
  script = "get_HSL_delta" /\ gi > Len(GridPoints(RECOLOR_AND_SAMPLE_RECTANGLE))

\* C7: when sampling collects no non-transparent pixel, the fitting script
\* stops with the no-anchor-points error: objective_function is never
\* evaluated, the optimizer is never started, nothing is saved
C7_NoAnchorsStopsBeforeFitting ==
  SamplingFinished /\ Len(original_anchor_colors) = 0 =>
    /\ pc \in {"check", "exit"}
    /\ pc = "exit" =>
         stdout[Len(stdout)] = "Error: No anchor points found in the specified rectangle."
    /\ evals = 0
    /\ exc = ""
    /\ "Starting global optimization" \notin Printed
    /\ saved = <<>>
    /\ result = NoResult

\* sampling over a texture that is transparent at every grid point has
\* finished and the script has exited
C7_Witness ==
  /\ SamplingFinished /\ Len(original_anchor_colors) = 0
  /\ pc = "exit"
  /\ original_img.w = Width

\* C8: the recolored image is computed and written only when result.success
\* is true; when it is false the script prints the failure and the
\* optimizer's message, and ends with no transformation applied and no
\* recolored output written
C8_FailureWritesNoOutput ==
  script = "get_HSL_delta" =>
    /\ pc \in {"recolor", "save"} => result.success
    /\ FixedPath("recolored_output.png") \in Saved => result.success
    /\ recolored_image # NoImage => result.success
    /\ pc = "done" /\ ~result.success =>
         /\ Len(stdout) >= 2
         /\ stdout[Len(stdout) - 1] = "Optimization failed and could not find a solution."
         /\ stdout[Len(stdout)] = result.message
         /\ result.message # ""
         /\ "Global Optimization Successful!" \notin Printed

\* the optimizer has returned success = false after evaluating the
\* objective, and the script has ended
C8_Witness ==
  /\ script = "get_HSL_delta" /\ pc = "done"
  /\ ~result.success
  /\ evals > 0

\* C9: apply_transforms.py never ends early: it ends by returning from main,
\* with both outputs saved for every texture id whose source image exists
\* and none for the ids whose source image does not
C9_FailureSkipsOnlyThatTexture ==
  script = "apply_transforms" /\ Terminated =>
    /\ pc = "done"
    /\ \A k \in 1..Len(texture_ids) :
         IF disk[SourcePath(texture_ids[k])].kind = "absent"
           THEN /\ OutputPath(texture_ids[k]) \notin Saved
                /\ PreviewPath(texture_ids[k]) \notin Saved
           ELSE /\ OutputPath(texture_ids[k]) \in Saved
                /\ PreviewPath(texture_ids[k]) \in Saved

\* the coordinate the i-th anchor was sampled at: the centre of the i-th
\* square drawn on the preview
AnchorX(i) == preview[i][2][1] + 1
AnchorY(i) == preview[i][2][2] + 1

\* the grid points the sampling loops have gone through whose pixel in the
\* original image has alpha >= 10
SampledOpaque ==
  {j \in 1..(gi - 1) :
     getpixel(original_img, GridPoints(RECOLOR_AND_SAMPLE_RECTANGLE)[j][1],
              GridPoints(RECOLOR_AND_SAMPLE_RECTANGLE)[j][2])[4] >= 10}

\* C13: while get_HSL_delta.py samples and afterwards, original_anchor_colors
\* and desired_anchor_colors have the same length, their i-th entries are the
\* colours of the original and of the desired image at the same (x, y), and
\* the coordinates that contributed are exactly the grid points gone through
\* where the original image has alpha >= 10
C13_AnchorListsParallel ==
  script = "get_HSL_delta" /\ pc \notin {"load", "exit", "crashed"} =>
    /\ Len(original_anchor_colors) = Len(desired_anchor_colors)
    /\ Len(original_anchor_colors) = Len(preview)
    /\ Len(original_anchor_colors) = Cardinality(SampledOpaque)
    /\ \A i \in 1..Len(original_anchor_colors) :
         /\ \E j \in SampledOpaque :
              GridPoints(RECOLOR_AND_SAMPLE_RECTANGLE)[j] = <<AnchorX(i), AnchorY(i)>>
         /\ original_anchor_colors[i] =
              SubSeq(getpixel(original_img, AnchorX(i), AnchorY(i)), 1, 3)
         /\ desired_anchor_colors[i] =
              SubSeq(getpixel(desired_img, AnchorX(i), AnchorY(i)), 1, 3)
         /\ \A k \in 1..(i - 1) : <<AnchorX(k), AnchorY(k)>> # <<AnchorX(i), AnchorY(i)>>

\* sampling has finished over images that differ, with an anchor taken and
\* a transparent grid point passed over
C13_Witness ==
  /\ script = "get_HSL_delta" /\ pc = "check"
  /\ Len(original_anchor_colors) >= 1
  /\ Len(original_anchor_colors) < gi - 1
  /\ original_anchor_colors[1] # desired_anchor_colors[1]

\* the rectangles the loops have gone through so far that contain pixel i,
\* as <<region, rectangle>> positions
ProcessedRects(i) ==
  {p \in UNION {{<<r, k>> : k \in 1..Len(RegionsOf(script, texture_id)[r].rects)} :
                   r \in 1..Len(RegionsOf(script, texture_id))} :
     /\ pc = "rect" => p[1] < ri \/ (p[1] = ri /\ p[2] < ki)
     /\ InRect((i - 1) % original_img.w, (i - 1) \div original_img.w,
               RegionsOf(script, texture_id)[p[1]].rects[p[2]])}

\* the last of them
LastRect(i) ==
  CHOOSE p \in ProcessedRects(i) :
    \A o \in ProcessedRects(i) : o[1] < p[1] \/ (o[1] = p[1] /\ o[2] <= p[2])

\* the transformed colour of pixel i of the original image under the
\* parameters of region r
TransformedOnce(i, r) ==
  IF script = "apply_transforms"
    THEN Call("apply_transformation", SubSeq(original_img.px[i], 1, 3),
              RegionsOf(script, texture_id)[r].params)
  ELSE IF script = "apply_regional_transform"
    THEN Call("apply_predefined_transformation", SubSeq(original_img.px[i], 1, 3),
              RegionsOf(script, texture_id)[r].params)
  ELSE Call("apply_rgb_and_hsl_transformation", SubSeq(original_img.px[i], 1, 3),
            result.x)

\* C14: during and after the rectangle loops every pixel of the recolored
\* image keeps the alpha of the original image, and a pixel that differs
\* from the original is the original colour transformed once with the
\* parameters of the last rectangle processed that contains it
C14_TransformedOnceFromOriginal ==
  pc \in {"rect", "save"} =>
    \A i \in 1..Len(original_img.px) :
      /\ recolored_image.px[i][4] = original_img.px[i][4]
      /\ recolored_image.px[i] # original_img.px[i] =>
           /\ ProcessedRects(i) # {}
           /\ SubSeq(recolored_image.px[i], 1, 3) = TransformedOnce(i, LastRect(i)[1])

\* the loops of apply_transforms.py have finished on a texture with an
\* opaque pixel that two rectangles cover and that was recoloured
C14_Witness ==
  /\ script = "apply_transforms" /\ pc = "save"
  /\ \E i \in 1..Len(original_img.px) :
       /\ Cardinality(ProcessedRects(i)) = 2
       /\ original_img.px[i][4] = 255
       /\ recolored_image.px[i] # original_img.px[i]

\* C10: when rename_files_with_offset returns, the directory holds as many
\* files as it did at the call, and the content that was under a matching
\* name with number n is under the name carrying n + offset
C10_RenamesWithoutLoss ==
  rpc = "done" =>
    /\ Cardinality(DOMAIN directory) = Cardinality(listing)
    /\ \A i \in 1..Len(files_to_process) :
         LET target == <<"f">> \o Str(files_to_process[i][3] + offset)
         IN target \in DOMAIN directory /\ directory[target] = files_to_process[i][1]

\* the positions of the subdirectories of the source root
Subdirectories == {i \in 1..Len(source_root) : source_root[i].is_dir}

\* C15: a run of consolidate_textures over a source root ends with the
\* summary, never at a subdirectory; then copied_count + skipped_count is the
\* number of subdirectories, and copied_count counts the subdirectories with
\* a texture id, a texture_00.png and a copy that succeeded
C15_EverySubdirectoryCountedOnce ==
  source_is_dir /\ cpc \in {"done", "crashed"} =>
    /\ cpc = "done"
    /\ copied_count + skipped_count = Cardinality(Subdirectories)
    /\ copied_count =
         Cardinality({i \in Subdirectories :
                        /\ \E f \in 1..Len(source_root[i].MonoBehaviour.files) :
                             MatchesId(source_root[i].MonoBehaviour.files[f])
                           \/ \E g \in 1..Len(source_root[i].TextAsset.files) :
                             MatchesId(source_root[i].TextAsset.files[g])
                        /\ source_root[i].texture
                        /\ ~source_root[i].copy_fails})

====
